---- MODULE Spec2Model ----
(***************************************************************************)
(* Model of QualityControl/tobject2json.cc: the native addon exposing      *)
(* init (InitBackend) and get (GetObject), and the TObjectAsyncWorker that *)
(* a get call creates.                                                     *)
(*                                                                         *)
(* Build modelled: node-addon-api with C++ exceptions enabled.  OnError    *)
(* (line 45) is reachable only through the catch of AsyncWorker::OnExecute,*)
(* which exists in that build alone; a failed napi conversion then throws  *)
(* a Napi::Error out of the entry point.                                   *)
(*                                                                         *)
(* Contexts: the entry points and the completion callbacks run on the      *)
(* caller's context (the event loop); Execute runs on a pool thread.       *)
(* The backend (DatabaseFactory / DatabaseInterface) is external: each of  *)
(* create, connect and retrieveJson either returns or raises, chosen       *)
(* nondeterministically.  Backend texts and error messages are well-formed *)
(* UTF-8 and error messages are non-empty.                                 *)
(***************************************************************************)
EXTENDS Integers, Sequences, FiniteSets, TLC

\* ------------------------------------------------------------------ bounds
\* Number of get calls that pass the argument checks of GetObject.
MaxCalls == 2
\* Width, in bits, of uint64_t and of long in the model (both 64 in an LP64
\* build; scaled down so that 2^WordBits is a TLC integer).
WordBits == 12

VARIABLES
  type, host, database, username, password,  \* lines 8-12, std::string bytes
  workers,    \* the TObjectAsyncWorker objects ever constructed and queued
  backends,   \* the DatabaseInterface instances ever created by the factory
  calls,      \* the get calls that passed GetObject's argument checks
  invoked,    \* per continuation: the invocations it has received
  lastInit,   \* the most recent init call: its outcome and its arguments
  step,       \* the last operation and what it threw to its caller
  crashed     \* the process was terminated by an escaped C++ exception

vars == <<type, host, database, username, password, workers, backends,
          calls, invoked, lastInit, step, crashed>>

\* --------------------------------------------------------------- JS values
Str(s) == [k |-> "string", s |-> s, n |-> 0]
Num(n) == [k |-> "number", s |-> <<>>, n |-> n]
Fun(id) == [k |-> "function", s |-> <<>>, n |-> id]
Undefined == [k |-> "undefined", s |-> <<>>, n |-> 0]
Null == [k |-> "null", s |-> <<>>, n |-> 0]
ErrorValue(msg) == [k |-> "error", s |-> msg, n |-> 0]

\* info[i] of a Napi::CallbackInfo: undefined beyond the supplied arguments.
\* (TLA+ sequences are 1-based: Arg(info, 1) is info[0].)
Arg(info, i) == IF i <= Len(info) THEN info[i] ELSE Undefined

IsString(v) == v.k = "string"
IsFunction(v) == v.k = "function"
IsNumber(v) == v.k = "number"

\* JS string (code points) -> std::string (UTF-8 bytes), as
\* Napi::String::operator std::string does.  Code points below 0x800.
RECURSIVE Utf8Encode(_)
Utf8Encode(s) ==
  IF s = <<>> THEN <<>>
  ELSE LET c == Head(s) IN
       (IF c < 128 THEN <<c>> ELSE <<192 + (c \div 64), 128 + (c % 64)>>)
         \o Utf8Encode(Tail(s))

\* std::string (UTF-8 bytes) -> JS string, as Napi::String::New does: an
\* ill-formed byte decodes to U+FFFD.  One- and two-byte sequences.
RECURSIVE Utf8Decode(_)
Utf8Decode(b) ==
  IF b = <<>> THEN <<>>
  ELSE LET c == Head(b) IN
       IF c < 128 THEN <<c>> \o Utf8Decode(Tail(b))
       ELSE IF c >= 194 /\ c <= 223 /\ Len(b) >= 2 /\ b[2] >= 128 /\ b[2] <= 191
            THEN <<(c - 192) * 64 + (b[2] - 128)>> \o Utf8Decode(Tail(Tail(b)))
            ELSE <<65533>> \o Utf8Decode(Tail(b))

\* int64_t -> uint64_t (line 96) and uint64_t -> long (line 97, the
\* constructor's parameter), at the model's width.
ToUint64(n) == n % (2 ^ WordBits)
ToLongZeroExtended(u) == u % (2 ^ WordBits)
ToLong(u) ==
  LET m == u % (2 ^ WordBits) IN
  IF m >= 2 ^ (WordBits - 1) THEN m - 2 ^ WordBits ELSE m

\* ------------------------------------------------------------------ inputs
SA == <<97>>
SB == <<98>>
SE == <<233>>
CfgA == <<Str(SA), Str(SA), Str(SA), Str(SA), Str(SA)>>
CfgB == <<Str(SB), Str(SE), Str(SB), Str(SE), Str(SB)>>

\* A value of another kind in place of v.
Wrong(v) == IF IsString(v) THEN Num(5) ELSE Str(<<120>>)

\* init calls: two complete configurations that differ in every field, and
\* malformed calls (no argument; one string; one non-string; five arguments
\* of which the first is not a string).
InitArgLists ==
  { CfgA, CfgB, <<>>, SubSeq(CfgB, 1, 1), <<Num(5)>>,
    <<Wrong(CfgB[1])>> \o Tail(CfgB) }

\* get calls: a request (path, timestamp) with a fresh continuation cb; calls
\* with 0, 1 or 2 arguments; a call whose third argument is not callable; and
\* calls whose path is not a string or whose timestamp is not a number.
Requests == {<<SA, 1000>>, <<SE, -1>>}
GetArgLists(cb) ==
  { <<Str(r[1]), Num(r[2]), Fun(cb)>> : r \in Requests }
    \cup { SubSeq(<<Str(SA), Num(1000)>>, 1, n) : n \in 0..2 }
    \cup { <<Str(SE), Num(-1), Wrong(Fun(cb))>> }
    \cup { <<Wrong(Str(SA)), Num(1000), Fun(cb)>>, <<Str(SE), Wrong(Num(-1)), Fun(cb)>> }

\* What the backend can return from retrieveJson, and what() of what it raises.
JsonTexts == {Utf8Encode(<<123, 125>>), Utf8Encode(<<123, 233, 125>>)}
ErrMsgs == {<<101>>}

\* The record kept of the last operation: what it threw to its caller and
\* which backend calls it issued on the caller's context.
Step(op, thrown, issued) == [op |-> op, thrown |-> thrown, issued |-> issued]

\* ------------------------------------------------------------ initial state
Init ==
  /\ type = <<>> /\ host = <<>> /\ database = <<>>
  /\ username = <<>> /\ password = <<>>
  /\ workers = <<>>
  /\ backends = <<>>
  /\ calls = <<>>
  /\ invoked = [i \in 1..MaxCalls |-> <<>>]
  /\ lastInit = [called |-> FALSE, ok |-> FALSE, info |-> <<>>]
  /\ step = [op |-> "load", thrown |-> "none", issued |-> <<>>]
  /\ crashed = FALSE

\* ------------------------------------------------------------- InitBackend
\* Line 70: the condition under which "Invalid argument" is raised.
InitGuard(info) == Len(info) < 5 /\ ~IsString(Arg(info, 1))

\* Lines 74-78: the assignments run in order; the first conversion of a
\* non-string throws and ends the call.  The number of fields assigned.
InitAssigned(info) ==
  LET bad == {i \in 1..5 : ~IsString(Arg(info, i))} IN
  IF bad = {} THEN 5
  ELSE (CHOOSE i \in bad : \A j \in bad : i <= j) - 1

\* The field assigned by line 73+i, given its value before the call.
InitFieldKeepsPassword(old, info, i) ==
  IF i <= InitAssigned(info) /\ i < 5 THEN Utf8Encode(Arg(info, i).s) ELSE old
InitField(old, info, i) ==
  IF i <= InitAssigned(info) THEN Utf8Encode(Arg(info, i).s) ELSE old

\* What the call throws to its caller.  Line 71 only records a pending
\* exception (there is no return after it); the conversion on line 74 then
\* throws, and the pending "Invalid argument" is what the caller sees.
InitThrown(info) ==
  IF InitGuard(info) THEN "Invalid argument"
  ELSE IF InitAssigned(info) < 5 THEN "A string was expected"
  ELSE "none"

\* The backend calls InitBackend makes: none; it only stores its arguments.
InitIssuedCreate == <<[call |-> "create", args |-> <<type>>]>>
InitIssued == <<>>

InitBackend(info) ==
  /\ ~crashed
  /\ type' = InitField(type, info, 1)
  /\ host' = InitField(host, info, 2)
  /\ database' = InitField(database, info, 3)
  /\ username' = InitField(username, info, 4)
  /\ password' = InitField(password, info, 5)
  /\ lastInit' = IF InitThrown(info) = "none"
                 THEN [called |-> TRUE, ok |-> TRUE, info |-> SubSeq(info, 1, 5)]
                 ELSE [called |-> TRUE, ok |-> FALSE, info |-> <<>>]
  /\ step' = Step("InitBackend", InitThrown(info), InitIssued)
  /\ UNCHANGED <<workers, backends, calls, invoked, crashed>>

\* --------------------------------------------------------------- GetObject
\* Lines 84-92: the two argument checks, each followed by a return.
GetObjectCheckCountOnly(info) ==
  IF Len(info) < 3 THEN "Invalid argument count" ELSE "none"
GetObjectCheck(info) ==
  IF Len(info) < 3 THEN "Invalid argument count"
  ELSE IF ~IsFunction(Arg(info, 3)) THEN "Invalid argument types"
  ELSE "none"

\* A DatabaseInterface instance as DatabaseFactory::create returns it
\* (line 21), after connect was called on it from the constructor (line 22).
\* The instance is external: the model keeps who owns it, which calls were
\* made on it, from which context, and whether it was released.
NewBackend(owner, connectOk, released) ==
  [ owner |-> owner,
    connectOk |-> connectOk,
    connectCtx |-> <<"caller">>,
    users |-> {},
    retrieveArgs |-> <<>>,
    retrieveCtx |-> <<>>,
    retrieveResults |-> <<>>,
    released |-> released ]

\* The worker object after its constructor (lines 17-23) and Queue (line 97).
NewWorker(cb, path, timestamp, b) ==
  [ callback |-> cb, path |-> path, timestamp |-> timestamp,
    output |-> <<>>, error |-> <<>>, BackendInstance |-> b,
    state |-> "queued" ]

\* A get call that passed the argument checks: the path and timestamp it
\* was given, its continuation, what it threw, and the worker and backend
\* instance it created (0 for none).
CallRecord(info, thrown, w, b) ==
  [ path |-> Arg(info, 1), timestamp |-> Arg(info, 2), cb |-> Arg(info, 3).n,
    thrown |-> thrown, worker |-> w, backend |-> b ]

\* The backend calls the constructor issues, with the globals it reads:
\* create(type) on line 21 and, when create returned, connect(host, database,
\* username, password) on line 22.
CtorIssued(createOk) ==
  <<[call |-> "create", args |-> <<type>>]>>
    \o (IF createOk
        THEN <<[call |-> "connect", args |-> <<host, database, username, password>>]>>
        ELSE <<>>)

\* What the caller of get observes when a backend exception leaves the
\* constructor: a JS exception, or no return at all (std::terminate).
Escaped(escape) == IF escape = "abort" THEN "terminated" ELSE "BackendError"

\* How the constructor's two backend calls end: both return; or create or
\* connect raises and the exception, leaving GetObject, is turned into a JS
\* exception ("throw") or ends the process ("abort").
CtorOutcomes ==
  { <<TRUE, TRUE, "none">> }
    \cup { <<FALSE, FALSE, e>> : e \in {"throw", "abort"} }
    \cup { <<TRUE, FALSE, e>> : e \in {"throw", "abort"} }

GetObject(info) ==
  /\ ~crashed
  /\ UNCHANGED <<type, host, database, username, password, lastInit, invoked>>
  /\ IF GetObjectCheck(info) # "none"
     THEN /\ step' = Step("GetObject", GetObjectCheck(info), <<>>)
          /\ UNCHANGED <<workers, backends, calls, crashed>>
     ELSE
       /\ Len(calls) < MaxCalls
       /\ LET cb == Arg(info, 3).n IN
          IF ~IsString(Arg(info, 1))
          THEN \* line 95: the conversion to std::string throws
               /\ calls' = Append(calls, CallRecord(info, "A string was expected", 0, 0))
               /\ step' = Step("GetObject", "A string was expected", <<>>)
               /\ UNCHANGED <<workers, backends, crashed>>
          ELSE IF ~IsNumber(Arg(info, 2))
          THEN \* line 96: Int64Value throws
               /\ calls' = Append(calls, CallRecord(info, "A number was expected", 0, 0))
               /\ step' = Step("GetObject", "A number was expected", <<>>)
               /\ UNCHANGED <<workers, backends, crashed>>
          ELSE
            LET path == Utf8Encode(Arg(info, 1).s)
                timestamp == ToLong(ToUint64(Arg(info, 2).n))
                b == Len(backends) + 1
                w == Len(workers) + 1
            IN
            \E outcome \in CtorOutcomes :
              LET createOk == outcome[1]
                  connectOk == outcome[2]
                  escape == outcome[3]
              IN
              IF createOk /\ connectOk
              THEN \* lines 21-22 return; line 97 queues the worker
                   /\ backends' = Append(backends, NewBackend(cb, TRUE, FALSE))
                   /\ workers' = Append(workers, NewWorker(cb, path, timestamp, b))
                   /\ calls' = Append(calls, CallRecord(info, "none", w, b))
                   /\ step' = Step("GetObject", "none", CtorIssued(TRUE))
                   /\ UNCHANGED crashed
              ELSE \* the backend raises inside the constructor, on the caller's
                   \* context: the exception leaves GetObject, and either becomes
                   \* a JS exception or terminates the process
                   /\ backends' = IF createOk
                                  THEN Append(backends, NewBackend(cb, FALSE, escape = "throw"))
                                  ELSE backends
                   /\ calls' = Append(calls, CallRecord(info, Escaped(escape), 0,
                                                        IF createOk THEN b ELSE 0))
                   /\ step' = Step("GetObject", Escaped(escape), CtorIssued(createOk))
                   /\ crashed' = (escape = "abort")
                   /\ UNCHANGED workers

\* ------------------------------------------------------ TObjectAsyncWorker
\* Line 29, the call: a pool thread takes the queued worker and enters
\* retrieveJson(path, timestamp, metadata) on the worker's own instance.
Execute(w) ==
  /\ ~crashed
  /\ w \in 1..Len(workers)
  /\ workers[w].state = "queued"
  /\ LET b == workers[w].BackendInstance IN
     backends' = [backends EXCEPT
                    ![b].users = @ \cup {w},
                    ![b].retrieveArgs = Append(@, <<workers[w].path, workers[w].timestamp>>),
                    ![b].retrieveCtx = Append(@, "pool")]
  /\ workers' = [workers EXCEPT ![w].state = "executing"]
  /\ step' = Step("Execute", "none", <<>>)
  /\ UNCHANGED <<type, host, database, username, password, calls, invoked,
                 lastInit, crashed>>

\* Where Execute leaves the worker: retrieveJson is called once and Execute
\* returns, whether the call returned (ok) or raised; there is no loop.
StateAfterExecuteRetry(ok) == IF ok THEN "executed" ELSE "queued"
StateAfterExecute(ok) == "executed"

\* Line 29, the return: retrieveJson returns a text, assigned to output, or
\* raises a std::exception, which AsyncWorker records with SetError(what()).
ExecuteReturn(w) ==
  /\ ~crashed
  /\ w \in 1..Len(workers)
  /\ workers[w].state = "executing"
  /\ \E ok \in BOOLEAN :
       \E val \in (IF ok THEN JsonTexts ELSE ErrMsgs) :
         /\ workers' = [workers EXCEPT
                          ![w].state = StateAfterExecute(ok),
                          ![w].output = IF ok THEN val ELSE @,
                          ![w].error = IF ok THEN @ ELSE val]
         /\ backends' = [backends EXCEPT
                           ![workers[w].BackendInstance].retrieveResults =
                              Append(@, [ok |-> ok, val |-> val])]
  /\ step' = Step("Execute", "none", <<>>)
  /\ UNCHANGED <<type, host, database, username, password, calls, invoked,
                 lastInit, crashed>>

\* Lines 36-42: the arguments OnOK passes to the continuation.
OnOKLatin1(w) == [err |-> Null, res |-> Str(w.output)]
OnOK(w) == [err |-> Null, res |-> Str(Utf8Decode(w.output))]

\* Lines 49-55: the arguments OnError passes; e is Error::New(env, _error).
OnError(w) == [err |-> ErrorValue(Utf8Decode(w.error)), res |-> Undefined]

\* The completion handlers run for a worker: OnOK when no error was set,
\* OnError otherwise.
DeliveriesBoth(w) ==
  <<OnOK(w)>> \o (IF w.error = <<>> THEN <<>> ELSE <<OnError(w)>>)
Deliveries(w) == IF w.error = <<>> THEN <<OnOK(w)>> ELSE <<OnError(w)>>

\* Lines 36 and 49: Callback() is the function this worker was built with.
CallbackOfLatest(w) == workers[Len(workers)].callback
Callback(w) == w.callback

\* Line 59: the unique_ptr member releases the instance with its worker.
ReleaseBackendNever(bs, b) == bs
ReleaseBackend(bs, b) == [bs EXCEPT ![b].released = TRUE]

\* When the completion handlers may run: AsyncWorker runs OnOK / OnError from
\* the event loop once Execute has returned on the pool thread.
CompletionReadyAtQueue(w) == w.state \in {"queued", "executed"}
CompletionReady(w) == w.state = "executed"

\* Back on the caller's context: the completion handler is run once and the
\* worker is destroyed.
OnWorkComplete(w) ==
  /\ ~crashed
  /\ w \in 1..Len(workers)
  /\ CompletionReady(workers[w])
  /\ invoked' = [invoked EXCEPT ![Callback(workers[w])] = @ \o Deliveries(workers[w])]
  /\ workers' = [workers EXCEPT ![w].state = "destroyed"]
  /\ backends' = ReleaseBackend(backends, workers[w].BackendInstance)
  /\ step' = Step("OnWorkComplete", "none", <<>>)
  /\ UNCHANGED <<type, host, database, username, password, calls, lastInit, crashed>>

\* ----------------------------------------------------------- specification
Next ==
  \/ \E info \in InitArgLists : InitBackend(info)
  \/ \E info \in GetArgLists(Len(calls) + 1) : GetObject(info)
  \/ \E w \in 1..MaxCalls : Execute(w)
  \/ \E w \in 1..MaxCalls : ExecuteReturn(w)
  \/ \E w \in 1..MaxCalls : OnWorkComplete(w)

Spec == Init /\ [][Next]_vars

\* The pool runs every queued worker, a backend call returns or raises, and
\* the event loop runs every completion.
FairSpec ==
  /\ Spec
  /\ \A w \in 1..MaxCalls :
       /\ WF_vars(Execute(w))
       /\ WF_vars(ExecuteReturn(w))
       /\ WF_vars(OnWorkComplete(w))

\* One get call for every timestamp of the signed range, each followed by
\* its worker's call of retrieveJson.
Timestamps == (0 - 2 ^ (WordBits - 1)) .. (2 ^ (WordBits - 1) - 1)
TimestampNext ==
  \/ \E ts \in Timestamps :
       Len(calls) = 0 /\ GetObject(<<Str(SA), Num(ts), Fun(1)>>)
  \/ \E w \in 1..MaxCalls : Execute(w)

TimestampSpec == Init /\ [][TimestampNext]_vars

\* ================================================================== claims
Config == <<type, host, database, username, password>>
IsSuccess(inv) == inv.err = Null /\ IsString(inv.res)
IsFailure(inv) == inv.err.k = "error" /\ inv.res = Undefined

\* C1: every continuation is invoked at most once in total, and never with
\* both outcomes: a continuation that received (null, jsonString) has not
\* received (error, undefined), and vice versa.
C1_ContinuationAtMostOnce ==
  \A cb \in 1..MaxCalls :
    /\ Len(invoked[cb]) <= 1
    /\ ~(\E i, j \in 1..Len(invoked[cb]) :
           IsSuccess(invoked[cb][i]) /\ ~IsSuccess(invoked[cb][j]))
    /\ \A i \in 1..Len(invoked[cb]) : IsSuccess(invoked[cb][i]) \/ IsFailure(invoked[cb][i])

\* Two tasks have completed, one with each outcome.
C1_Witness ==
  \E a, b \in 1..MaxCalls :
    /\ Len(invoked[a]) = 1 /\ IsSuccess(invoked[a][1])
    /\ Len(invoked[b]) = 1 /\ IsFailure(invoked[b][1])

\* C2: a failure raised by the backend during connect or retrieveJson is
\* never thrown synchronously out of get (nor ends the process), and once
\* its task has completed it has been delivered exactly once, as
\* (error, undefined), to the continuation.
C2_BackendFailureOnlyThroughContinuation ==
  /\ \A i \in 1..Len(calls) : calls[i].thrown \notin {"BackendError", "terminated"}
  /\ \A w \in 1..Len(workers) :
       (workers[w].state = "destroyed" /\ workers[w].error # <<>>)
         => /\ Len(invoked[workers[w].callback]) = 1
            /\ IsFailure(invoked[workers[w].callback][1])

\* C3: every malformed init call (fewer than 5 arguments, or first argument
\* not a string) throws an argument error and leaves the five configuration
\* values as they were.
MalformedInit(info) == Len(info) < 5 \/ ~IsString(Arg(info, 1))
C3_MalformedInitThrowsAndKeepsConfig ==
  [][\A info \in InitArgLists :
       (MalformedInit(info) /\ InitBackend(info))
         => /\ step'.thrown \in {"Invalid argument", "A string was expected"}
            /\ Config' = Config]_vars

\* C4: every malformed get call (fewer than 3 arguments, or third argument
\* not callable) throws an argument error synchronously, creates no worker
\* and no backend instance, issues no backend call and invokes nothing; and
\* a continuation is only ever invoked for a call that created a worker.
MalformedGet(info) == Len(info) < 3 \/ ~IsFunction(Arg(info, 3))
\* The malformed get calls among the inputs (none of them holds a function,
\* so they are the same for every continuation).
MalformedGetLists == {info \in GetArgLists(0) : MalformedGet(info)}
C4_MalformedGetThrowsAndCreatesNothing ==
  [][/\ step'.op = "GetObject" =>
          \A info \in MalformedGetLists :
            GetObject(info)
              => /\ step'.thrown \in {"Invalid argument count", "Invalid argument types"}
                 /\ step'.issued = <<>>
                 /\ UNCHANGED <<workers, backends, calls, invoked>>
     /\ \A cb \in 1..MaxCalls :
          invoked'[cb] # invoked[cb]
            => \E i \in 1..Len(calls) : calls[i].cb = cb /\ calls[i].worker # 0]_vars

\* A malformed get call threw while a task was in flight.
C4_Witness ==
  /\ step.op = "GetObject"
  /\ step.thrown \in {"Invalid argument count", "Invalid argument types"}
  /\ \E w \in 1..Len(workers) : workers[w].state = "executing"

\* C5: under fair scheduling, the continuation of every get call that was
\* given a string path, a number timestamp and a callable continuation is
\* eventually invoked, whatever connect and retrieveJson do.
C5_ValidGetEventuallyResolves ==
  \A i \in 1..MaxCalls :
    (Len(calls) >= i /\ IsString(calls[i].path) /\ IsNumber(calls[i].timestamp))
      ~> (invoked[i] # <<>>)

\* C6: no backend call of a retrieval runs on the caller's context: a get
\* call issues none, and connect and retrieveJson run on the pool.
C6_NoBackendCallOnCallerContext ==
  /\ step.op = "GetObject" => step.issued = <<>>
  /\ \A b \in 1..Len(backends) :
       /\ \A i \in 1..Len(backends[b].connectCtx) : backends[b].connectCtx[i] = "pool"
       /\ \A i \in 1..Len(backends[b].retrieveCtx) : backends[b].retrieveCtx[i] = "pool"

\* C7: whatever the number of tasks in flight and the order in which they
\* finish, what a continuation receives is the outcome of the one retrieval
\* made for its own call, with that call's path and timestamp: the text or
\* the error that retrieval produced, and nothing produced for another task.
C7_OwnResultOnly ==
  \A cb \in 1..MaxCalls :
    invoked[cb] # <<>> =>
      \E i \in 1..Len(calls) :
        /\ calls[i].cb = cb
        /\ calls[i].backend # 0
        /\ LET bk == backends[calls[i].backend] IN
           /\ bk.owner = cb
           /\ bk.retrieveArgs =
                << <<Utf8Encode(calls[i].path.s), calls[i].timestamp.n>> >>
           /\ Len(bk.retrieveResults) = 1
           /\ \A k \in 1..Len(invoked[cb]) :
                LET inv == invoked[cb][k]
                    r == bk.retrieveResults[1]
                IN IF r.ok
                   THEN IsSuccess(inv) /\ Utf8Encode(inv.res.s) = r.val
                   ELSE IsFailure(inv) /\ Utf8Encode(inv.err.s) = r.val

\* Two tasks for different requests were in flight together, the later one
\* finished first, and each continuation got a different result.
C7_Witness ==
  /\ Len(workers) = 2
  /\ workers[1].path # workers[2].path
  /\ workers[1].state = "executed" /\ workers[2].state = "destroyed"
  /\ workers[1].error = <<>> /\ workers[2].error = <<>>
  /\ workers[1].output # workers[2].output
  /\ invoked[2] # <<>> /\ invoked[1] = <<>>

\* C8: when the most recent init call succeeded, the configuration is the
\* five arguments of that call, and a get call made then creates its backend
\* with that type and connects with that host, database, username, password.
InitArgsAsStrings(info) == [i \in 1..5 |-> Utf8Encode(info[i].s)]
C8_LastInitWins ==
  lastInit.ok =>
    /\ Config = InitArgsAsStrings(lastInit.info)
    /\ (step.op = "GetObject" /\ step.issued # <<>>) =>
         /\ step.issued[1] =
              [call |-> "create", args |-> <<InitArgsAsStrings(lastInit.info)[1]>>]
         /\ Len(step.issued) >= 2 =>
              step.issued[2] =
                [call |-> "connect", args |-> Tail(InitArgsAsStrings(lastInit.info))]

\* init last succeeded with the second configuration, after a first task
\* had been created, and a second task has just been created and connected.
C8_Witness ==
  /\ lastInit.ok /\ lastInit.info = CfgB
  /\ step.op = "GetObject" /\ Len(step.issued) = 2
  /\ Len(workers) = 2

\* C9: after a successful retrieval the continuation has been invoked once,
\* with a null error and the very text retrieveJson returned for the task's
\* path and timestamp.
C9_SuccessDeliversBackendText ==
  \A w \in 1..Len(workers) :
    LET bk == backends[workers[w].BackendInstance] IN
    (workers[w].state = "destroyed" /\ Len(bk.retrieveResults) = 1
       /\ bk.retrieveResults[1].ok)
      => /\ bk.retrieveArgs = << <<workers[w].path, workers[w].timestamp>> >>
         /\ Len(invoked[workers[w].callback]) = 1
         /\ invoked[workers[w].callback][1].err = Null
         /\ IsString(invoked[workers[w].callback][1].res)
         /\ Utf8Encode(invoked[workers[w].callback][1].res.s) = bk.retrieveResults[1].val

\* A task has delivered a text holding a two-byte character.
C9_Witness ==
  \E w \in 1..Len(workers) :
    /\ workers[w].state = "destroyed"
    /\ workers[w].output = Utf8Encode(<<123, 233, 125>>)
    /\ invoked[workers[w].callback] # <<>>

\* C10: each worker has a backend instance of its own, connected once; an
\* instance is used by its worker alone and for one retrieval at most; it is
\* not released while its worker lives and is released once the worker has
\* completed, with either outcome.
C10_HandleOwnedByOneTask ==
  /\ \A v, w \in 1..Len(workers) :
       v # w => workers[v].BackendInstance # workers[w].BackendInstance
  /\ \A w \in 1..Len(workers) :
       LET bk == backends[workers[w].BackendInstance] IN
       /\ bk.owner = workers[w].callback
       /\ Len(bk.connectCtx) = 1
       /\ bk.users \subseteq {w}
       /\ Len(bk.retrieveArgs) <= 1
       /\ bk.released <=> (workers[w].state = "destroyed")

\* Both outcomes: a completed successful task and a completed failed task,
\* each with its own released instance.
C10_Witness ==
  \E v, w \in 1..Len(workers) :
    /\ workers[v].state = "destroyed" /\ workers[v].error = <<>>
    /\ workers[w].state = "destroyed" /\ workers[w].error # <<>>
    /\ backends[workers[v].BackendInstance].released
    /\ backends[workers[w].BackendInstance].released

\* C11: a task only moves queued -> executing -> executed -> destroyed:
\* retrieveJson is entered once, on leaving queued, and never again, also
\* after it raised; once Execute has returned the outcome (output, error and
\* the backend's answer) stays as it is; and a destroyed worker changes no
\* more, nor is its continuation invoked again.
LifecycleMoves ==
  { <<"queued", "executing">>, <<"executing", "executed">>,
    <<"executed", "destroyed">> }
C11_TaskLifecycle ==
  [][\A w \in 1..Len(workers) :
       LET old == workers[w]
           new == workers'[w]
           bk == backends[old.BackendInstance]
           bk2 == backends'[old.BackendInstance]
       IN
       /\ Len(workers') >= Len(workers)
       /\ new.state = old.state \/ <<old.state, new.state>> \in LifecycleMoves
       /\ Len(bk2.retrieveArgs) <= 1
       /\ bk2.retrieveArgs # bk.retrieveArgs
            => old.state = "queued" /\ new.state = "executing"
       /\ old.state \in {"executed", "destroyed"}
            => /\ new.output = old.output /\ new.error = old.error
               /\ bk2.retrieveResults = bk.retrieveResults
       /\ old.state = "destroyed"
            => new = old /\ invoked'[old.callback] = invoked[old.callback]]_vars

\* A task whose retrieval raised has completed, after one retrieval and one
\* invocation, and another task was created after that.
C11_Witness ==
  \E w \in 1..Len(workers) :
    /\ workers[w].state = "destroyed" /\ workers[w].error # <<>>
    /\ Len(backends[workers[w].BackendInstance].retrieveArgs) = 1
    /\ Len(invoked[workers[w].callback]) = 1
    /\ w < Len(workers) /\ workers[Len(workers)].state = "queued"

\* C12: a task takes the configuration once, when it is created: an init
\* call changes no worker and no backend instance, no step of a task after
\* its creation creates or connects a backend, and the type a task's backend
\* was created with and the four values it connected with all come from one
\* configure call (or are all the initial values), never from two.
CompleteInits ==
  {info \in InitArgLists : Len(info) >= 5 /\ \A i \in 1..5 : IsString(info[i])}
WholeConfigs ==
  {[i \in 1..5 |-> <<>>]} \cup {InitArgsAsStrings(info) : info \in CompleteInits}
C12_TaskConfigFromOneInit ==
  [][/\ step'.op = "InitBackend" => UNCHANGED <<workers, backends>>
     /\ step'.op \in {"Execute", "OnWorkComplete"}
          => /\ step'.issued = <<>>
             /\ \A b \in 1..Len(backends) :
                  backends'[b].connectCtx = backends[b].connectCtx
     /\ (step'.op = "GetObject" /\ step'.issued # <<>>)
          => \E c \in WholeConfigs :
               /\ step'.issued[1].args = <<c[1]>>
               /\ Len(step'.issued) >= 2 => step'.issued[2].args = Tail(c)]_vars

\* C13: a continuation is invoked only by the completion handler, which the
\* event loop runs on the caller's context: never by a get call and never by
\* the pool thread; and when it is invoked, the get call that was given it
\* had returned with a worker, and that worker's Execute had returned with
\* the backend's answer.
C13_InvokedAfterGetAndExecution ==
  [][\A cb \in 1..MaxCalls :
       invoked'[cb] # invoked[cb]
         => /\ step'.op = "OnWorkComplete"
            /\ \E i \in 1..Len(calls) :
                 /\ calls[i].cb = cb
                 /\ calls[i].thrown = "none"
                 /\ calls[i].worker \in 1..Len(workers)
                 /\ LET w == calls[i].worker
                        bk == backends[workers[w].BackendInstance]
                    IN /\ workers[w].state = "executed"
                       /\ workers'[w].state = "destroyed"
                       /\ Len(bk.retrieveArgs) = 1
                       /\ Len(bk.retrieveResults) = 1]_vars

\* The first continuation has just been invoked by the completion handler
\* while the second task is still inside retrieveJson on the pool.
C13_Witness ==
  /\ step.op = "OnWorkComplete"
  /\ Len(invoked[1]) = 1 /\ invoked[2] = <<>>
  /\ Len(workers) = 2
  /\ workers[1].state = "destroyed" /\ workers[2].state = "executing"

\* C14: a get call given a string path, a number timestamp and a callable
\* continuation before any init call throws nothing: it has created a
\* worker, queued, whose backend was created with the empty type and
\* connected with four empty strings.
C14_GetBeforeInitCreatesTask ==
  LET n == Len(calls) IN
  ( /\ step.op = "GetObject"
    /\ step.thrown \notin {"Invalid argument count", "Invalid argument types"}
    /\ ~lastInit.called
    /\ n > 0 /\ IsString(calls[n].path) /\ IsNumber(calls[n].timestamp) )
    => /\ step.thrown = "none"
       /\ calls[n].worker \in 1..Len(workers)
       /\ step.issued = << [call |-> "create", args |-> << <<>> >>],
                           [call |-> "connect", args |-> << <<>>, <<>>, <<>>, <<>> >>] >>

\* C15: the timestamp a worker holds, and the one its retrieveJson call
\* receives, is the integer the get call was given, for every integer of the
\* signed range, negative ones included: the passage through the unsigned
\* word and back to the signed long of the same width changes nothing.
C15_TimestampRoundTrip ==
  \A i \in 1..Len(calls) :
    calls[i].worker # 0 =>
      LET w == workers[calls[i].worker]
          bk == backends[w.BackendInstance]
      IN /\ w.timestamp = calls[i].timestamp.n
         /\ \A k \in 1..Len(bk.retrieveArgs) :
              bk.retrieveArgs[k][2] = calls[i].timestamp.n

\* retrieveJson has been called with the least timestamp of the range.
C15_Witness ==
  \E b \in 1..Len(backends) :
    /\ Len(backends[b].retrieveArgs) = 1
    /\ backends[b].retrieveArgs[1][2] = 0 - 2 ^ (WordBits - 1)
    /\ calls[1].timestamp.n < 0

====
